---- MODULE Spec2Model ----
(***************************************************************************)
(* ferris-sign: the signing pipeline of src/src/main.rs (fn main).         *)
(*                                                                         *)
(* One invocation of the program is modelled as a sequential process whose *)
(* position is pc.  The identity provider, the certificate authority, the  *)
(* transparency log, the file system and the crypto backend are the        *)
(* environment: each call into them returns any of the outcomes the call   *)
(* can produce.  `?` returns an error from main (result = "err"), a failed *)
(* unwrap aborts the process (result = "panic").                           *)
(***************************************************************************)
EXTENDS Integers, Sequences, FiniteSets, TLC

(***************************************************************************)
(* Bounds of the model.                                                    *)
(***************************************************************************)
MaxBundle == 3      \* segments in a CA response body
NumKeys == 1        \* key material create_signer can produce
NumUuids == 2       \* identifiers the log service can answer with
NumArtifacts == 1   \* distinct contents of the in-file

(***************************************************************************)
(* Values.  Every datum is a tagged tuple so that an encoding is never the *)
(* identity and values of different kinds are never equal.                 *)
(***************************************************************************)
Keys == 1..NumKeys
Uuids == 1..NumUuids
Artifacts == 1..NumArtifacts

\* main.rs:179, the issuer entry the selection loop looks for
ExpectedIssuer == "sigstore-intermediate"

\* Issuer distinguished-name entries of the certificates of the model.
\* 1: a leaf as Fulcio issues it; 2: issued by another authority; 3: two
\* entries both equal to the expected one; 4: a certificate of an earlier
\* run (never in this run's CA response).
IssuerTable ==
  << <<"sigstore.dev", "sigstore-intermediate">>,
     <<"sigstore">>,
     <<"sigstore-intermediate", "sigstore-intermediate">>,
     <<"sigstore.dev", "sigstore-intermediate">> >>

Certs == 1..Len(IssuerTable)
StaleCert == Len(IssuerTable)
CaCerts == Certs \ {StaleCert}

\* cert.issuer_name().entries()
IssuerEntries(c) == IssuerTable[c]

\* The text of one PEM CERTIFICATE block whose body encodes certificate c;
\* body 0 is a well-delimited block whose body is not a certificate.
Pem(c) == <<"pem", c>>
GarbagePem == Pem(0)
\* Any text outside a complete BEGIN/END CERTIFICATE pair.
OtherText == <<"text", 0>>

Segments == {Pem(c) : c \in CaCerts} \cup {GarbagePem, OtherText}

RECURSIVE SeqsUpTo(_, _)
SeqsUpTo(S, n) ==
  IF n = 0 THEN {<<>>}
  ELSE LET shorter == SeqsUpTo(S, n - 1)
       IN  shorter \cup {Append(s, x) : s \in {t \in shorter : Len(t) = n - 1}, x \in S}

\* Bodies the CA can answer with: text holding zero or more PEM blocks.
Bundles == SeqsUpTo(Segments, MaxBundle)

\* base64::encode
encode(x) == <<"b64", x>>

\* The key material behind a signer and what is derived from it.
PrivateKey(k) == <<"priv", k>>
PublicKeyPem(k) == <<"pub", k>>
\* signer.sign(msg)
Sign(k, msg) == <<"sig", k, msg>>

Email == <<"email", 1>>
IdToken == <<"token", 1>>
FileBytes(a) == <<"bytes", a>>
\* crypto::sha256_digest, over the bytes it reads
Sha256(bytes) == <<"sha256", bytes>>

None == <<"none", 0>>

\* A file: absent, or present with a sequence of written chunks.
NoFile == [exists |-> FALSE, data |-> <<>>]
FileWith(d) == [exists |-> TRUE, data |-> d]


(***************************************************************************)
(* State of one invocation.                                                *)
(***************************************************************************)
VARIABLES
  pc,               \* position in main
  result,           \* "running", or how the process ended: "ok", "err", "panic"
  sign,             \* matches.is_present("sign")
  signer,           \* key material held by the signer (0 before creation)
  browser,          \* outcome of open::that: "untried", "opened", "failed"
  urlShown,         \* the authorization URL was written to stdout
  token,            \* what the redirect listener returned
  email,            \* token_response.email()
  signature,        \* signature over the email (main.rs:145)
  body,             \* the serialized FulcioPayload
  status,           \* HTTP status of the CA response
  certs,            \* text of the CA response
  cert_pem,         \* the String the selection loop accumulates
  capIdx,           \* next capture of cert_re.find_iter to process
  certFile,         \* the file at cert-out
  sigFile,          \* the file at sig-out
  inFile,           \* the file at in-file
  certCreates,      \* File::create calls on cert-out
  sigCreates,       \* File::create calls on sig-out
  file_bytes,       \* bytes read from in-file for signing
  artSignature,     \* signature over file_bytes (main.rs:197)
  cert_file_bytes,  \* bytes read back from cert-out
  hash,             \* crypto::sha256_digest(in-file)
  log_entry,        \* result of rekor_api::create_log
  retrieved_entry,  \* entry returned by rekor_api::get_entry_by_uuid
  caRequests,       \* requests sent to the CA, in order
  logRequests,      \* requests sent to the log, in order
  stages,           \* pipeline stages completed, in order
  other             \* a concurrent invocation with the same cert-out path

vars == <<pc, result, sign, signer, urlShown, token, email, signature, body,
          status, certs, cert_pem, capIdx, certFile, sigFile, inFile,
          certCreates, sigCreates, file_bytes, artSignature, cert_file_bytes,
          hash, log_entry, retrieved_entry, caRequests, logRequests, stages,
          browser, other>>

NoToken == [has_email |-> FALSE, id_token |-> None]
NoBody == [publicKey |-> [algorithm |-> "", content |-> None],
           signedEmailAddress |-> None]
NoEntry == [ok |-> FALSE, uuid |-> 0]
\* The other invocation has not reached its selection loop.
OtherIdle == [pc |-> "idle", cert |-> 0]

Init ==
  /\ pc = "create_signer"
  /\ result = "running"
  /\ sign \in BOOLEAN
  /\ signer = 0
  /\ urlShown = FALSE
  /\ token = NoToken
  /\ email = None
  /\ signature = None
  /\ body = NoBody
  /\ status = 0
  /\ certs = <<>>
  /\ cert_pem = <<>>
  /\ capIdx = 1
  /\ certFile \in {NoFile, FileWith(<<Pem(StaleCert)>>)}
  /\ sigFile = NoFile
  /\ inFile \in {NoFile} \cup {FileWith(<<FileBytes(a)>>) : a \in Artifacts}
  /\ certCreates = 0
  /\ sigCreates = 0
  /\ file_bytes = <<>>
  /\ artSignature = None
  /\ cert_file_bytes = <<>>
  /\ hash = None
  /\ log_entry = NoEntry
  /\ retrieved_entry = NoEntry
  /\ caRequests = <<>>
  /\ logRequests = <<>>
  /\ stages = <<>>
  /\ browser = "untried"
  /\ other = OtherIdle

(***************************************************************************)
(* Control flow of main: the statement that follows each statement.        *)
(***************************************************************************)
\* Submissions sent to the log so far.
CreateRequestsSent ==
  Cardinality({i \in DOMAIN logRequests : logRequests[i].op = "create"})

\* Succ with the selection loop left out of the sequence.
Succ_skipSelect(p) ==
  CASE p = "create_signer" -> "extract"
    [] p = "extract" -> "auth_url"
    [] p = "auth_url" -> "open_browser"
    [] p = "open_browser" -> "listen"
    [] p = "listen" -> "read_email"
    [] p = "read_email" -> "sign_email"
    [] p = "sign_email" -> "build_payload"
    [] p = "build_payload" -> "request_cert"
    [] p = "request_cert" -> "sign_artifact"
    [] p = "select" -> "sign_artifact"
    [] p = "sign_artifact" -> "write_sig"
    [] p = "write_sig" -> "read_cert"
    [] p = "read_cert" -> "hash"
    [] p = "hash" -> "create_log"
    [] p = "create_log" -> "get_entry"
    [] p = "get_entry" -> "return"
    [] OTHER -> "done"

\* Succ going back to the read of cert-out after the digest is computed.
Succ_reread(p) ==
  CASE p = "create_signer" -> "extract"
    [] p = "extract" -> "auth_url"
    [] p = "auth_url" -> "open_browser"
    [] p = "open_browser" -> "listen"
    [] p = "listen" -> "read_email"
    [] p = "read_email" -> "sign_email"
    [] p = "sign_email" -> "build_payload"
    [] p = "build_payload" -> "request_cert"
    [] p = "request_cert" -> "select"
    [] p = "select" -> "sign_artifact"
    [] p = "sign_artifact" -> "write_sig"
    [] p = "write_sig" -> "read_cert"
    [] p = "read_cert" -> "hash"
    [] p = "hash" -> "read_cert"
    [] p = "create_log" -> "get_entry"
    [] p = "get_entry" -> "return"
    [] OTHER -> "done"

\* Succ with the log submission tried again after it returns.
Succ_retry(p) ==
  CASE p = "create_signer" -> "extract"
    [] p = "extract" -> "auth_url"
    [] p = "auth_url" -> "open_browser"
    [] p = "open_browser" -> "listen"
    [] p = "listen" -> "read_email"
    [] p = "read_email" -> "sign_email"
    [] p = "sign_email" -> "build_payload"
    [] p = "build_payload" -> "request_cert"
    [] p = "request_cert" -> "select"
    [] p = "select" -> "sign_artifact"
    [] p = "sign_artifact" -> "write_sig"
    [] p = "write_sig" -> "read_cert"
    [] p = "read_cert" -> "hash"
    [] p = "hash" -> "create_log"
    [] p = "create_log" -> IF log_entry.ok \/ CreateRequestsSent >= 2
                           THEN "get_entry" ELSE "create_log"
    [] p = "get_entry" -> "return"
    [] OTHER -> "done"

Succ(p) ==
  CASE p = "create_signer" -> "extract"
    [] p = "extract" -> "auth_url"
    [] p = "auth_url" -> "open_browser"
    [] p = "open_browser" -> "listen"
    [] p = "listen" -> "read_email"
    [] p = "read_email" -> "sign_email"
    [] p = "sign_email" -> "build_payload"
    [] p = "build_payload" -> "request_cert"
    [] p = "request_cert" -> "select"
    [] p = "select" -> "sign_artifact"
    [] p = "sign_artifact" -> "write_sig"
    [] p = "write_sig" -> "read_cert"
    [] p = "read_cert" -> "hash"
    [] p = "hash" -> "create_log"
    [] p = "create_log" -> "get_entry"
    [] p = "get_entry" -> "return"
    [] OTHER -> "done"

\* `?` on an Err: main returns the error.
ReturnErr == pc' = "done" /\ result' = "err"
\* unwrap on an Err or None: the process aborts.
Panic == pc' = "done" /\ result' = "panic"
Goto(p) == pc' = p /\ result' = result

Enter(stage) == stages' = Append(stages, stage)

(***************************************************************************)
(* main.rs:81  SigningScheme::ECDSA_P256_SHA256_ASN1.create_signer()?      *)
(* The signer is created before the command line is even looked at.        *)
(***************************************************************************)
CreateSigner ==
  /\ pc = "create_signer"
  /\ \/ \E k \in Keys :
          /\ signer' = k
          /\ Enter("KeyGenerated")
          /\ Goto(Succ(pc))
     \/ /\ ReturnErr
        /\ UNCHANGED <<signer, stages>>
  /\ UNCHANGED <<browser, other, sign, urlShown, token, email, signature, body, status, certs,
                 cert_pem, capIdx, certFile, sigFile, inFile, certCreates,
                 sigCreates, file_bytes, artSignature, cert_file_bytes, hash,
                 log_entry, retrieved_entry, caRequests, logRequests>>

(***************************************************************************)
(* main.rs:83-100  the extract branch, then the test of the sign flag.     *)
(* Every fallible call of the branch ends in `?`.                          *)
(***************************************************************************)
Extract ==
  /\ pc = "extract"
  /\ \E present \in BOOLEAN, readable \in BOOLEAN :
        IF present /\ ~readable
        THEN ReturnErr
        ELSE Goto(IF sign THEN Succ(pc) ELSE "return")
  /\ UNCHANGED <<browser, other, sign, signer, urlShown, token, email, signature, body, status,
                 certs, cert_pem, capIdx, certFile, sigFile, inFile,
                 certCreates, sigCreates, file_bytes, artSignature,
                 cert_file_bytes, hash, log_entry, retrieved_entry, caRequests,
                 logRequests, stages>>

(***************************************************************************)
(* main.rs:106-116  OpenIDAuthorize::auth_url().unwrap() on a blocking     *)
(* thread; a panic there surfaces as a JoinError through `.await?`.        *)
(***************************************************************************)
AuthUrl ==
  /\ pc = "auth_url"
  /\ \/ Goto(Succ(pc))
     \/ ReturnErr
  /\ UNCHANGED <<browser, other, sign, signer, urlShown, token, email, signature, body, status,
                 certs, cert_pem, capIdx, certFile, sigFile, inFile,
                 certCreates, sigCreates, file_bytes, artSignature,
                 cert_file_bytes, hash, log_entry, retrieved_entry, caRequests,
                 logRequests, stages>>

\* main.rs:118  the condition under which the URL is written to stdout
UrlShownWhen(opened) == opened

(***************************************************************************)
(* main.rs:118-123  open::that(url); its outcome only decides the println. *)
(***************************************************************************)
OpenBrowser ==
  /\ pc = "open_browser"
  /\ \E opened \in BOOLEAN :
        /\ browser' = IF opened THEN "opened" ELSE "failed"
        /\ urlShown' = UrlShownWhen(opened)
  /\ Goto(Succ(pc))
  /\ UNCHANGED <<other, sign, signer, token, email, signature, body, status, certs,
                 cert_pem, capIdx, certFile, sigFile, inFile, certCreates,
                 sigCreates, file_bytes, artSignature, cert_file_bytes, hash,
                 log_entry, retrieved_entry, caRequests, logRequests, stages>>

(***************************************************************************)
(* main.rs:126-136  RedirectListener::redirect_listener().unwrap() on a    *)
(* blocking thread.  The step is taken when the browser callback arrives;  *)
(* nothing else ends the wait.                                             *)
(***************************************************************************)
RedirectListener ==
  /\ pc = "listen"
  /\ \/ \E has \in BOOLEAN :
          /\ token' = [has_email |-> has, id_token |-> IdToken]
          /\ Goto(Succ(pc))
     \/ /\ ReturnErr
        /\ UNCHANGED token
  /\ UNCHANGED <<browser, other, sign, signer, urlShown, email, signature, body, status, certs,
                 cert_pem, capIdx, certFile, sigFile, inFile, certCreates,
                 sigCreates, file_bytes, artSignature, cert_file_bytes, hash,
                 log_entry, retrieved_entry, caRequests, logRequests, stages>>

(***************************************************************************)
(* main.rs:139-143  token_response.email().unwrap()                        *)
(***************************************************************************)
ReadEmail ==
  /\ pc = "read_email"
  /\ IF token.has_email
     THEN /\ email' = Email
          /\ Enter("Authenticated")
          /\ Goto(Succ(pc))
     ELSE /\ Panic
          /\ UNCHANGED <<email, stages>>
  /\ UNCHANGED <<browser, other, sign, signer, urlShown, token, signature, body, status, certs,
                 cert_pem, capIdx, certFile, sigFile, inFile, certCreates,
                 sigCreates, file_bytes, artSignature, cert_file_bytes, hash,
                 log_entry, retrieved_entry, caRequests, logRequests>>

(***************************************************************************)
(* main.rs:145  signer.sign(email bytes).unwrap()                          *)
(***************************************************************************)
SignChallenge ==
  /\ pc = "sign_email"
  /\ \/ /\ signature' = Sign(signer, email)
        /\ Enter("ChallengeSigned")
        /\ Goto(Succ(pc))
     \/ /\ Panic
        /\ UNCHANGED <<signature, stages>>
  /\ UNCHANGED <<browser, other, sign, signer, urlShown, token, email, body, status, certs,
                 cert_pem, capIdx, certFile, sigFile, inFile, certCreates,
                 sigCreates, file_bytes, artSignature, cert_file_bytes, hash,
                 log_entry, retrieved_entry, caRequests, logRequests>>

\* ExportedKey exporting the other half of the keypair.
ExportedKey_private(k) == PrivateKey(k)

\* main.rs:147-148  signer.to_sigstore_keypair()?.public_key_to_pem()?
ExportedKey(k) == PublicKeyPem(k)

\* main.rs:149-155  the FulcioPayload
Payload(k, sig) ==
  [publicKey |-> [algorithm |-> "ecdsa", content |-> encode(ExportedKey(k))],
   signedEmailAddress |-> encode(sig)]

(***************************************************************************)
(* main.rs:147-157  export the public key and serialize the payload.       *)
(***************************************************************************)
BuildPayload ==
  /\ pc = "build_payload"
  /\ \/ /\ body' = Payload(signer, signature)
        /\ Goto(Succ(pc))
     \/ /\ ReturnErr
        /\ UNCHANGED body
  /\ UNCHANGED <<browser, other, sign, signer, urlShown, token, email, signature, status, certs,
                 cert_pem, capIdx, certFile, sigFile, inFile, certCreates,
                 sigCreates, file_bytes, artSignature, cert_file_bytes, hash,
                 log_entry, retrieved_entry, caRequests, logRequests, stages>>

\* Statuses the CA can answer with: success and an error.
HttpStatuses == {200, 500}

\* main.rs:161-166  the request as it goes on the wire
CaRequest(tok, b) == [authorization |-> <<"bearer", tok>>, body |-> b]

(***************************************************************************)
(* main.rs:160-168  POST to Fulcio.  send().await? fails on a transport    *)
(* error only: the status of the response is never looked at, and the body *)
(* of any response becomes certs.                                          *)
(***************************************************************************)
RequestCert ==
  /\ pc = "request_cert"
  /\ caRequests' = Append(caRequests, CaRequest(token.id_token, body))
  /\ \/ \E st \in HttpStatuses, text \in Bundles :
          /\ status' = st
          /\ certs' = text
          /\ Enter("CertRequested")
          /\ Goto(Succ(pc))
     \/ /\ ReturnErr
        /\ UNCHANGED <<status, certs, stages>>
  /\ UNCHANGED <<browser, other, sign, signer, urlShown, token, email, signature, body,
                 cert_pem, capIdx, certFile, sigFile, inFile, certCreates,
                 sigCreates, file_bytes, artSignature, cert_file_bytes, hash,
                 log_entry, retrieved_entry, logRequests>>

(***************************************************************************)
(* Certificate selection, main.rs:170-187.                                 *)
(***************************************************************************)
\* main.rs:172-173  what cert_re matches: a complete CERTIFICATE block
IsPemBlock(seg) == seg[1] = "pem"

\* main.rs:174  cert_re.find_iter(certs): the blocks, left to right
Captures(text) == SelectSeq(text, IsPemBlock)

\* main.rs:175  X509::from_pem(capture) is Ok
Parses(capture) == capture[2] \in Certs

\* main.rs:177  matches.is_present("cert-out"); --sign requires it
CertOutPresent == TRUE

\* IssuerMatches comparing a prefix only, as starts_with(b"sigstore") would.
IssuerMatches_prefix(entry) ==
  entry \in {"sigstore", "sigstore.dev", "sigstore-intermediate"}

\* IssuerMatches without the comparison: every issuer entry qualifies.
IssuerMatches_any(entry) == TRUE

\* main.rs:179  jk.data().as_slice() == b"sigstore-intermediate"
IssuerMatches(entry) == entry = ExpectedIssuer

\* main.rs:181  File::create: the file exists and is empty
Created(file) == FileWith(<<>>)

\* main.rs:183  file.write_all(bytes) on the handle just created
Written(file, bytes) == FileWith(file.data \o <<bytes>>)

\* main.rs:176-186  the loop over the issuer entries of one certificate,
\* from entry i on.  st is the state the loop works on; the file operation
\* at entry failAt fails (how: kind), which aborts the process.
RECURSIVE IssuerLoop(_, _, _, _, _, _)
IssuerLoop(entries, i, capture, st, failAt, kind) ==
  IF i > Len(entries) \/ st.failed THEN st
  ELSE IF CertOutPresent /\ IssuerMatches(entries[i])
  THEN LET counted == [st EXCEPT !.creates = st.creates + 1]
           next ==
             IF i = failAt /\ kind = "create"
             THEN [st EXCEPT !.failed = TRUE]
             ELSE IF i = failAt /\ kind = "write"
             THEN [counted EXCEPT !.file = Created(st.file),
                                  !.pem = Append(st.pem, capture),
                                  !.failed = TRUE]
             ELSE [counted EXCEPT !.file = Written(Created(st.file), capture),
                                  !.pem = Append(st.pem, capture)]
       IN  IssuerLoop(entries, i + 1, capture, next, failAt, kind)
  ELSE IssuerLoop(entries, i + 1, capture, st, failAt, kind)

(***************************************************************************)
(* main.rs:174-186  one iteration of the loop over the captures.           *)
(***************************************************************************)
SelectCert ==
  /\ pc = "select"
  /\ capIdx <= Len(Captures(certs))
  /\ LET capture == Captures(certs)[capIdx]
     IN  IF ~Parses(capture)
         THEN /\ Panic
              /\ UNCHANGED <<certFile, cert_pem, certCreates, capIdx>>
         ELSE \E failAt \in 0..Len(IssuerEntries(capture[2])),
                 kind \in {"create", "write"} :
                LET st == IssuerLoop(IssuerEntries(capture[2]), 1, capture,
                                     [file |-> certFile, pem |-> cert_pem,
                                      creates |-> certCreates, failed |-> FALSE],
                                     failAt, kind)
                IN  /\ certFile' = st.file
                    /\ cert_pem' = st.pem
                    /\ certCreates' = st.creates
                    /\ IF st.failed
                       THEN Panic /\ UNCHANGED capIdx
                       ELSE Goto(pc) /\ capIdx' = capIdx + 1
  /\ UNCHANGED <<browser, other, sign, signer, urlShown, token, email, signature, body, status,
                 certs, sigFile, inFile, sigCreates, file_bytes, artSignature,
                 cert_file_bytes, hash, log_entry, retrieved_entry, caRequests,
                 logRequests, stages>>

(***************************************************************************)
(* main.rs:187-191  the loop is over; whether anything matched is not      *)
(* looked at.                                                              *)
(***************************************************************************)
EndSelect ==
  /\ pc = "select"
  /\ capIdx > Len(Captures(certs))
  /\ Enter("CertSelected")
  /\ Goto(Succ(pc))
  /\ UNCHANGED <<browser, other, sign, signer, urlShown, token, email, signature, body, status,
                 certs, cert_pem, capIdx, certFile, sigFile, inFile,
                 certCreates, sigCreates, file_bytes, artSignature,
                 cert_file_bytes, hash, log_entry, retrieved_entry, caRequests,
                 logRequests>>

(***************************************************************************)
(* main.rs:194-197  read in-file and sign its bytes; every call unwraps.   *)
(***************************************************************************)
SignArtifact ==
  /\ pc = "sign_artifact"
  /\ \/ /\ inFile.exists
        /\ file_bytes' = inFile.data
        /\ artSignature' = Sign(signer, inFile.data)
        /\ Goto(Succ(pc))
     \/ /\ Panic
        /\ UNCHANGED <<file_bytes, artSignature>>
  /\ UNCHANGED <<browser, other, sign, signer, urlShown, token, email, signature, body, status,
                 certs, cert_pem, capIdx, certFile, sigFile, inFile,
                 certCreates, sigCreates, cert_file_bytes, hash, log_entry,
                 retrieved_entry, caRequests, logRequests, stages>>

(***************************************************************************)
(* main.rs:200-202  File::create(sig-out).unwrap(), write_all().unwrap()   *)
(***************************************************************************)
WriteSig ==
  /\ pc = "write_sig"
  /\ \/ /\ sigFile' = Written(Created(sigFile), artSignature)
        /\ sigCreates' = sigCreates + 1
        /\ Enter("ArtifactSigned")
        /\ Goto(Succ(pc))
     \/ /\ Panic
        /\ UNCHANGED <<sigFile, sigCreates, stages>>
     \/ /\ sigFile' = Created(sigFile)
        /\ sigCreates' = sigCreates + 1
        /\ Panic
        /\ UNCHANGED stages
  /\ UNCHANGED <<browser, other, sign, signer, urlShown, token, email, signature, body, status,
                 certs, cert_pem, capIdx, certFile, inFile, certCreates,
                 file_bytes, artSignature, cert_file_bytes, hash, log_entry,
                 retrieved_entry, caRequests, logRequests>>

(***************************************************************************)
(* main.rs:205-207  File::open(cert-out).unwrap() and read it back: the    *)
(* bytes sent to the log are whatever the file holds now.                  *)
(***************************************************************************)
ReadCertFile ==
  /\ pc = "read_cert"
  /\ \/ /\ certFile.exists
        /\ cert_file_bytes' = certFile.data
        /\ Goto(Succ(pc))
     \/ /\ Panic
        /\ UNCHANGED cert_file_bytes
  /\ UNCHANGED <<browser, other, sign, signer, urlShown, token, email, signature, body, status,
                 certs, cert_pem, capIdx, certFile, sigFile, inFile,
                 certCreates, sigCreates, file_bytes, artSignature, hash,
                 log_entry, retrieved_entry, caRequests, logRequests, stages>>

\* crypto::sha256_digest(path): the digest of what the file holds
Sha256Digest(file) == Sha256(file.data)

(***************************************************************************)
(* main.rs:210-213  crypto::sha256_digest(PathBuf::from(in_filename))?     *)
(* reads in-file again.                                                    *)
(***************************************************************************)
HashArtifact ==
  /\ pc = "hash"
  /\ \/ /\ inFile.exists
        /\ hash' = Sha256Digest(inFile)
        /\ Goto(Succ(pc))
     \/ /\ ReturnErr
        /\ UNCHANGED hash
  /\ UNCHANGED <<browser, other, sign, signer, urlShown, token, email, signature, body, status,
                 certs, cert_pem, capIdx, certFile, sigFile, inFile,
                 certCreates, sigCreates, file_bytes, artSignature,
                 cert_file_bytes, log_entry, retrieved_entry, caRequests,
                 logRequests, stages>>

\* CreateRequest with the certificate taken from the selection result held
\* in memory, not from the bytes read back from cert-out.
CreateRequest_selected(h, certBytes, sig) ==
  [op |-> "create", hash |-> h, cert |-> encode(cert_pem),
   sig |-> encode(sig), uuid |-> 0]

\* main.rs:210-216  the arguments of rekor_api::create_log
CreateRequest(h, certBytes, sig) ==
  [op |-> "create", hash |-> h, cert |-> encode(certBytes),
   sig |-> encode(sig), uuid |-> 0]

\* main.rs:221  the argument of rekor_api::get_entry_by_uuid
GetRequest(u) ==
  [op |-> "get", hash |-> None, cert |-> None, sig |-> None, uuid |-> u]

\* rekor_api::create_log: an error, or the created entry with its uuid
CreateLogResults == {NoEntry} \cup {[ok |-> TRUE, uuid |-> u] : u \in Uuids}

\* rekor_api::get_entry_by_uuid: the entry the service answers with
GetEntryResults == {[ok |-> TRUE, uuid |-> u] : u \in Uuids}

(***************************************************************************)
(* main.rs:215-217  submit to the log; the Result is kept and printed.     *)
(***************************************************************************)
CreateLog ==
  /\ pc = "create_log"
  /\ logRequests' =
       Append(logRequests, CreateRequest(hash, cert_file_bytes, artSignature))
  /\ \E r \in CreateLogResults :
        /\ log_entry' = r
        /\ stages' = IF r.ok THEN Append(stages, "LogSubmitted") ELSE stages
  /\ Goto(Succ(pc))
  /\ UNCHANGED <<browser, other, sign, signer, urlShown, token, email, signature, body, status,
                 certs, cert_pem, capIdx, certFile, sigFile, inFile,
                 certCreates, sigCreates, file_bytes, artSignature,
                 cert_file_bytes, hash, retrieved_entry, caRequests>>

\* UuidOf ignoring the entry: a fixed identifier.
UuidOf_fixed(entry) == 1

\* main.rs:220  let uuid = log_entry.unwrap().uuid
UuidOf(entry) == entry.uuid

(***************************************************************************)
(* main.rs:220-223  unwrap the submission, retrieve the entry by its uuid, *)
(* unwrap and print what came back.                                        *)
(***************************************************************************)
GetEntry ==
  /\ pc = "get_entry"
  /\ IF ~log_entry.ok
     THEN /\ Panic
          /\ UNCHANGED <<logRequests, retrieved_entry, stages>>
     ELSE /\ logRequests' = Append(logRequests, GetRequest(UuidOf(log_entry)))
          /\ \/ \E r \in GetEntryResults :
                  /\ retrieved_entry' = r
                  /\ Enter("LogVerified")
                  /\ Goto(Succ(pc))
             \/ /\ Panic
                /\ UNCHANGED <<retrieved_entry, stages>>
  /\ UNCHANGED <<browser, other, sign, signer, urlShown, token, email, signature, body, status,
                 certs, cert_pem, capIdx, certFile, sigFile, inFile,
                 certCreates, sigCreates, file_bytes, artSignature,
                 cert_file_bytes, hash, log_entry, caRequests>>

(***************************************************************************)
(* main.rs:225  anyhow::Ok(())                                             *)
(***************************************************************************)
Return ==
  /\ pc = "return"
  /\ pc' = "done"
  /\ result' = "ok"
  /\ UNCHANGED <<browser, other, sign, signer, urlShown, token, email, signature, body, status,
                 certs, cert_pem, capIdx, certFile, sigFile, inFile,
                 certCreates, sigCreates, file_bytes, artSignature,
                 cert_file_bytes, hash, log_entry, retrieved_entry, caRequests,
                 logRequests, stages>>

Next ==
  \/ CreateSigner
  \/ Extract
  \/ AuthUrl
  \/ OpenBrowser
  \/ RedirectListener
  \/ ReadEmail
  \/ SignChallenge
  \/ BuildPayload
  \/ RequestCert
  \/ SelectCert
  \/ EndSelect
  \/ SignArtifact
  \/ WriteSig
  \/ ReadCertFile
  \/ HashArtifact
  \/ CreateLog
  \/ GetEntry
  \/ Return

Spec == Init /\ [][Next]_vars

(***************************************************************************)
(* The run with what the scheduler guarantees: every step of main other    *)
(* than the wait for the browser callback is taken once it is enabled (the *)
(* calls return).  Nothing makes the callback arrive.                      *)
(***************************************************************************)
Progress == pc # "listen" /\ Next

SpecLive == Init /\ [][Next]_vars /\ WF_vars(Progress)

(***************************************************************************)
(* What other processes do to the files while the run is in progress.      *)
(*                                                                         *)
(* A second invocation given the same cert-out path executes the same      *)
(* File::create and write_all of its own selection loop (main.rs:181-183)  *)
(* on the shared file, with the certificate it selected; the two calls are *)
(* separate steps.  Any process may rewrite the in-file.                   *)
(*                                                                         *)
(* Only the writes this run can observe are steps of the model: a write to *)
(* cert-out between the start of this run's selection and its read-back    *)
(* (an earlier one is a cert-out file that is there before the run, a      *)
(* later one is never read), and a write to in-file between the read for   *)
(* signing and the read for hashing.                                       *)
(***************************************************************************)
\* main.rs:174-207  from the selection loop to the read-back of cert-out
CertRaceWindow == {"select", "sign_artifact", "write_sig", "read_cert"}

\* main.rs:197-213  after the read for signing, before the read for hashing
ArtifactRaceWindow == {"write_sig", "read_cert", "hash"}

OtherRunCreates ==
  /\ pc \in CertRaceWindow
  /\ other.pc = "idle"
  /\ certFile' = Created(certFile)
  /\ other' = [other EXCEPT !.pc = "created"]
  /\ UNCHANGED <<pc, result, sign, signer, browser, urlShown, token, email,
                 signature, body, status, certs, cert_pem, capIdx, sigFile,
                 inFile, certCreates, sigCreates, file_bytes, artSignature,
                 cert_file_bytes, hash, log_entry, retrieved_entry, caRequests,
                 logRequests, stages>>

OtherRunWrites ==
  /\ pc \in CertRaceWindow
  /\ other.pc = "created"
  /\ \E c \in CaCerts :
        /\ \E i \in DOMAIN IssuerEntries(c) : IssuerMatches(IssuerEntries(c)[i])
        /\ certFile' = FileWith(<<Pem(c)>>)
        /\ other' = [pc |-> "written", cert |-> c]
  /\ UNCHANGED <<pc, result, sign, signer, browser, urlShown, token, email,
                 signature, body, status, certs, cert_pem, capIdx, sigFile,
                 inFile, certCreates, sigCreates, file_bytes, artSignature,
                 cert_file_bytes, hash, log_entry, retrieved_entry, caRequests,
                 logRequests, stages>>

\* Contents another process can give the in-file: those it can have at the
\* start of the run and one it never has then.
RewrittenArtifacts == Artifacts \cup {0}

ModifyArtifact ==
  /\ pc \in ArtifactRaceWindow
  /\ inFile.exists
  /\ \E a \in RewrittenArtifacts :
        /\ inFile.data # <<FileBytes(a)>>
        /\ inFile' = FileWith(<<FileBytes(a)>>)
  /\ UNCHANGED <<pc, result, sign, signer, browser, urlShown, token, email,
                 signature, body, status, certs, cert_pem, capIdx, certFile,
                 sigFile, certCreates, sigCreates, file_bytes, artSignature,
                 cert_file_bytes, hash, log_entry, retrieved_entry, caRequests,
                 logRequests, stages, other>>

\* The run beside a second invocation with the same cert-out path.
NextRace ==
  \/ Next
  \/ OtherRunCreates
  \/ OtherRunWrites

SpecRace == Init /\ [][NextRace]_vars

\* The run beside a process that rewrites the in-file.
NextModify ==
  \/ Next
  \/ ModifyArtifact

SpecModify == Init /\ [][NextModify]_vars

(***************************************************************************)
(* Notions the properties are stated in.  They are stated over the data of *)
(* the run (the CA response, the files, the requests), independently of    *)
(* the operators that model the selection code.                            *)
(***************************************************************************)
Entered(stage) == \E i \in DOMAIN stages : stages[i] = stage

IsPrefix(s, t) == Len(s) <= Len(t) /\ \A i \in DOMAIN s : s[i] = t[i]

Failed == pc = "done" /\ result \in {"err", "panic"}

\* Certificate c has an issuer entry equal to the expected authority.
HasExpectedIssuer(c) ==
  c \in Certs /\ \E i \in DOMAIN IssuerTable[c] : IssuerTable[c][i] = "sigstore-intermediate"

\* Positions of the CA response that hold a certificate of the expected issuer.
MatchPositions ==
  {j \in DOMAIN certs : certs[j][1] = "pem" /\ HasExpectedIssuer(certs[j][2])}

\* Positions of the CA response that hold a PEM block.
PemPositions == {j \in DOMAIN certs : certs[j][1] = "pem"}

FirstMatch == CHOOSE j \in MatchPositions : \A m \in MatchPositions : j <= m

\* The selection step is over: the run is past the loop of main.rs:174-187.
SelectionOver == Entered("CertSelected")

\* The CA answered the certificate request with a success status.
CaSucceeded == status \in 200..299

\* Selection is over on a successful CA response that holds no certificate
\* of the expected issuer.
NothingSelected == SelectionOver /\ CaSucceeded /\ MatchPositions = {}

CreateRequests == {i \in DOMAIN logRequests : logRequests[i].op = "create"}
GetRequests == {i \in DOMAIN logRequests : logRequests[i].op = "get"}

(***************************************************************************)
(* C1                                                                      *)
(***************************************************************************)
SpecOrder ==
  <<"Authenticated", "KeyGenerated", "ChallengeSigned", "CertRequested",
    "CertSelected", "ArtifactSigned", "LogSubmitted", "LogVerified">>

CodeOrder ==
  <<"KeyGenerated", "Authenticated", "ChallengeSigned", "CertRequested",
    "CertSelected", "ArtifactSigned", "LogSubmitted", "LogVerified">>

\* C1 as stated: the stages completed so far are always an initial part of
\* Authenticated, KeyGenerated, ChallengeSigned, ..., LogVerified; the key
\* is generated only after authentication.
C1_SpecOrder == IsPrefix(stages, SpecOrder)

\* C1 amended: the stages completed so far are always an initial part of
\* KeyGenerated, Authenticated, ChallengeSigned, CertRequested, CertSelected,
\* ArtifactSigned, LogSubmitted, LogVerified: the key is generated first,
\* every other stage follows its predecessor, and none is entered twice.
C1_CodeOrder == IsPrefix(stages, CodeOrder)

C1_Witness == stages = CodeOrder /\ pc = "done" /\ result = "ok"

(***************************************************************************)
(* C2                                                                      *)
(***************************************************************************)
\* A stage has failed: the run has ended with an error, or certificate
\* selection is over without a certificate of the expected issuer.
StageFailed == Failed \/ NothingSelected

\* C2: from a state in which a stage has failed, the only step left leads
\* to (or stays in) Failed, writes no file and sends no request.
C2_FailFast ==
  [][StageFailed =>
       /\ pc' = "done" /\ result' \in {"err", "panic"}
       /\ certFile' = certFile /\ sigFile' = sigFile
       /\ caRequests' = caRequests /\ logRequests' = logRequests]_vars

(***************************************************************************)
(* C3                                                                      *)
(***************************************************************************)
\* C3: when the CA response holds no certificate of the expected issuer,
\* the end of selection is the end of the run: it is Failed, the artifact
\* is not signed, sig-out is not written and the log receives nothing.
C3_NoMatchFails ==
  NothingSelected =>
     /\ Failed
     /\ artSignature = None
     /\ sigCreates = 0
     /\ logRequests = <<>>

(***************************************************************************)
(* C4                                                                      *)
(***************************************************************************)
\* C4: in a run whose CA request succeeded, the certificate of every
\* submission to the log is the encoding of a certificate of the expected
\* issuer taken from this run's CA response.
C4_SubmitsOwnCert ==
  CaSucceeded =>
    \A i \in CreateRequests :
       \E j \in MatchPositions : logRequests[i].cert = encode(<<certs[j]>>)

(***************************************************************************)
(* C5                                                                      *)
(***************************************************************************)
\* C5: once selection is over on a CA response in which exactly one
\* certificate has the expected issuer, cert-out holds the PEM text of that
\* certificate and nothing else, wherever the certificate is in the bundle.
C5_UniqueMatchPersisted ==
  (SelectionOver /\ Cardinality(MatchPositions) = 1) =>
     certFile = FileWith(<<certs[FirstMatch]>>)

\* The one matching certificate comes after a certificate of another issuer
\* and replaces what cert-out held before the run.
C5_Witness ==
  /\ SelectionOver
  /\ Cardinality(MatchPositions) = 1
  /\ Cardinality(PemPositions) >= 2
  /\ FirstMatch > 1
  /\ certs[1][1] = "pem"
  /\ certFile = FileWith(<<certs[FirstMatch]>>)
  /\ certCreates >= 1

(***************************************************************************)
(* C6                                                                      *)
(***************************************************************************)
\* C6: once selection is over on a successful CA response in which several
\* certificates have the expected issuer, cert-out holds the first of them
\* in bundle order, and that is the certificate submitted to the log.
C6_FirstMatchPersisted ==
  (SelectionOver /\ CaSucceeded /\ Cardinality(MatchPositions) >= 2) =>
     /\ certFile = FileWith(<<certs[FirstMatch]>>)
     /\ \A i \in CreateRequests :
           logRequests[i].cert = encode(<<certs[FirstMatch]>>)

(***************************************************************************)
(* C7                                                                      *)
(***************************************************************************)
\* C7: when the retrieved entry carries another identifier than the
\* submitted one, the run is Failed and LogVerified is not entered.
C7_MismatchFails ==
  (log_entry.ok /\ retrieved_entry.ok /\ retrieved_entry.uuid # log_entry.uuid) =>
     Failed /\ ~Entered("LogVerified")

(***************************************************************************)
(* C8                                                                      *)
(***************************************************************************)
\* C8: every retrieval sent to the log comes after a submission that
\* returned an entry, and asks for the identifier of that entry.
C8_RetrievesSubmitted ==
  \A i \in GetRequests :
     /\ \E j \in CreateRequests : j < i
     /\ log_entry.ok
     /\ logRequests[i].uuid = log_entry.uuid

\* A retrieval was sent for an identifier other than the first one.
C8_Witness ==
  \E i \in GetRequests : logRequests[i].uuid = log_entry.uuid /\ log_entry.uuid > 1

(***************************************************************************)
(* C9                                                                      *)
(***************************************************************************)
\* C9: a signing run that ends with success has completed every stage:
\* authentication, a CA request answered with success, a selection that found a certificate of
\* the expected issuer and persisted it, artifact signing, log submission
\* and the retrieval.
C9_SuccessMeansAll ==
  (pc = "done" /\ result = "ok" /\ sign) =>
     /\ stages = CodeOrder
     /\ (CaSucceeded => MatchPositions # {})
     /\ log_entry.ok
     /\ retrieved_entry.ok

(***************************************************************************)
(* C10                                                                     *)
(***************************************************************************)
Range(f) == {f[i] : i \in DOMAIN f}

\* What has left the process: the fields of the requests (decoded) and the
\* chunks written to the two output files by this run.
SentToCa ==
  UNION {{caRequests[i].body.publicKey.content[2],
          caRequests[i].body.signedEmailAddress[2],
          caRequests[i].authorization[2]} : i \in DOMAIN caRequests}

SentToLog ==
  UNION {{logRequests[i].hash, logRequests[i].sig[2]}
         \cup Range(logRequests[i].cert[2]) : i \in CreateRequests}

Stored ==
  (IF certCreates > 0 THEN Range(certFile.data) ELSE {})
  \cup (IF sigCreates > 0 THEN Range(sigFile.data) ELSE {})

Exposed == SentToCa \cup SentToLog \cup Stored

CaRefused == status # 0 /\ ~CaSucceeded

\* C11: once the CA has answered with a non-2xx status the run is Failed,
\* and the body of that answer is not taken through certificate selection:
\* no capture of it is processed and cert-out is not written from it.
C11_RefusalFails ==
  CaRefused =>
     /\ Failed
     /\ ~SelectionOver
     /\ capIdx = 1
     /\ certCreates = 0

(***************************************************************************)
(* C12                                                                     *)
(***************************************************************************)
\* C12: once the attempt to open the browser has failed, the authorization
\* URL has been printed, and the attempt has not ended the run: the run is
\* at the redirect listener or beyond it.
C12_UrlShownOnFailure ==
  browser = "failed" =>
     /\ urlShown
     /\ pc \notin {"create_signer", "extract", "auth_url", "open_browser"}

(***************************************************************************)
(* C13                                                                     *)
(***************************************************************************)
\* C13: in a run the CA receives at most one certificate request and the
\* log at most one submission and at most one retrieval.
C13_NoRetry ==
  /\ Len(caRequests) <= 1
  /\ Cardinality(CreateRequests) <= 1
  /\ Cardinality(GetRequests) <= 1

\* All three calls were made, and the run ended on a failed retrieval.
C13_Witness ==
  /\ Len(caRequests) = 1
  /\ Cardinality(CreateRequests) = 1
  /\ Cardinality(GetRequests) = 1
  /\ Failed

(***************************************************************************)
(* C14                                                                     *)
(***************************************************************************)
\* C14: beside a second invocation with the same cert-out path, the run
\* reads back whatever cert-out holds at that moment, whoever wrote it, and
\* submits exactly those bytes together with its own signature and digest.
C14_SubmitsWhatCertOutHolds ==
  /\ [][(pc = "read_cert" /\ pc' = "hash") => cert_file_bytes' = certFile.data]_vars
  /\ [](\A i \in CreateRequests :
          /\ logRequests[i].cert = encode(cert_file_bytes)
          /\ logRequests[i].sig = encode(Sign(signer, file_bytes))
          /\ logRequests[i].hash = hash)

\* The run selected and wrote a certificate of its own, and has submitted
\* the certificate the other invocation wrote over it, with its own
\* signature and digest.
C14_Witness ==
  /\ other.pc = "written"
  /\ cert_pem # <<>>
  /\ certCreates >= 1
  /\ \A j \in DOMAIN cert_pem : cert_pem[j] # Pem(other.cert)
  /\ \E i \in CreateRequests :
        /\ logRequests[i].cert = encode(<<Pem(other.cert)>>)
        /\ logRequests[i].sig = encode(Sign(signer, file_bytes))
        /\ logRequests[i].hash = Sha256(file_bytes)

(***************************************************************************)
(* C15                                                                     *)
(***************************************************************************)
\* C15: in a run whose CA request was not refused, cert-out is created at
\* most once and sig-out is created at most once.
C15_FilesCreatedOnce ==
  ~CaRefused => (certCreates <= 1 /\ sigCreates <= 1)

(***************************************************************************)
(* C16                                                                     *)
(***************************************************************************)
\* The run is waiting in redirect_listener for the browser callback.
Blocked == pc = "listen" /\ result = "running"

\* C16: the only step that leaves the wait for the callback is the return
\* of the listener itself (no timeout, no cancellation), so a run whose
\* callback never arrives stays there; and once the listener has returned,
\* the run eventually ends, in Failed or with LogVerified entered.
C16_BlocksOrEnds ==
  /\ [][Blocked => RedirectListener]_vars
  /\ (pc = "read_email") ~> (Failed \/ (pc = "done" /\ Entered("LogVerified")))

\* The run waits for the callback after the browser attempt.
C16_Witness == Blocked /\ browser # "untried" /\ sign

(***************************************************************************)
(* C17                                                                     *)
(***************************************************************************)
\* C17: as long as the CA response of the run holds no certificate of the
\* expected issuer (no PEM block at all included), no step of the run
\* creates, truncates or writes cert-out: File::create was never called on
\* it and it holds what it held before the run.
C17_NoMatchNoWrite ==
  /\ [][MatchPositions = {} => certFile' = certFile]_vars
  /\ [](MatchPositions = {} => certCreates = 0)

\* Selection is over on a response with certificates of other issuers only,
\* and cert-out still holds the certificate of an earlier run.
C17_Witness ==
  /\ SelectionOver
  /\ MatchPositions = {}
  /\ PemPositions # {}
  /\ certCreates = 0
  /\ certFile = FileWith(<<Pem(StaleCert)>>)

(***************************************************************************)
(* C18                                                                     *)
(***************************************************************************)
\* C18: in a run whose CA request was not refused, a request has reached
\* the CA only after the token was received and the challenge signed, and
\* carries that challenge; a submission has reached the log only after the
\* artifact was signed, the digest computed, the signature written to
\* sig-out and the certificate written to cert-out by the run.
C18_OutputsBeforeUse ==
  ~CaRefused =>
     /\ caRequests # <<>> =>
           /\ Entered("Authenticated")
           /\ Entered("ChallengeSigned")
           /\ caRequests[1].body.signedEmailAddress = encode(Sign(signer, Email))
     /\ CreateRequests # {} =>
           /\ artSignature # None
           /\ hash # None
           /\ sigCreates >= 1
           /\ sigFile = FileWith(<<artSignature>>)
           /\ certCreates >= 1

(***************************************************************************)
(* C19                                                                     *)
(***************************************************************************)
\* C19: beside a process that rewrites the in-file, every submission to
\* the log carries the signature over the bytes read for signing and the
\* digest of those same bytes.
C19_DigestOfSignedBytes ==
  \A i \in CreateRequests :
     /\ logRequests[i].sig = encode(Sign(signer, file_bytes))
     /\ logRequests[i].hash = Sha256(file_bytes)

====
